---- MODULE Spec2Model ----
(***************************************************************************)
(* The HTTP gateway of src/apps.ts: class App (middleware pipeline,        *)
(* handleErrors, start) and its two subclasses PublicApp and PrivateApp    *)
(* (route tables).  A request is dispatched through the layers of the      *)
(* express server in registration order; every callback of the event loop  *)
(* runs to completion, so one action is one callback.                      *)
(***************************************************************************)
EXTENDS Integers, Sequences, FiniteSets, TLC

VARIABLES
  surface,    \* "public" (PublicApp) or "private" (PrivateApp)
  logger,     \* App.logger: "winston" or "undefined"
  server,     \* App.server: the layers registered on the express app, in order
  setting,    \* the express setting "port" (server.set("port", port))
  port,       \* App.port
  listen,     \* the socket of server.listen: built, binding, listening, failed
  promise,    \* the promise start() returned
  req         \* the requests, each with its position in the pipeline

vars == <<surface, logger, server, setting, port, listen, promise, req>>

(***************************************************************************)
(* Bounds                                                                  *)
(***************************************************************************)
\* requests in flight at once in SpecConc
MaxInFlight == 2

(***************************************************************************)
(* Registration: the constructors                                          *)
(***************************************************************************)
Use(handler, arity) ==
  [type |-> "use", method |-> "*", path |-> <<"*">>, handler |-> handler,
   arity |-> arity, dep |-> "none"]

Route(method, path, handler, dep) ==
  [type |-> "route", method |-> method, path |-> path, handler |-> handler,
   arity |-> 3, dep |-> dep]

\* App.options: the policy handed to cors()
options ==
  [allowedHeaders |-> <<"Origin", "X-Requested-With", "Content-Type", "Accept",
                        "X-Access-Token">>,
   credentials |-> TRUE,
   methods |-> "GET,HEAD,OPTIONS,PUT,PATCH,POST,DELETE",
   origin |-> "*",
   preflightContinue |-> FALSE]

\* App.constructor: the fixed middleware, morgan only with a logger
AppLayers(lg) ==
  <<Use("compression", 3)>>
  \o (IF lg # "undefined" THEN <<Use("morgan", 3)>> ELSE <<>>)
  \o <<Use("bodyParser.json", 3), Use("bodyParser.urlencoded", 3),
       Use("expressValidator", 3), Use("cors", 3)>>

PublicRoutes ==
  <<Route("GET", <<"api", "status">>, "publicApi.getStatus", "none"),
    Route("GET", <<"api", "peers">>, "publicApi.getPeers", "peerHandler"),
    Route("POST", <<"api", "peers">>, "publicApi.becomePeer", "peerHandler"),
    Route("POST", <<"api", "tokens">>, "publicApi.newToken", "messageBroker"),
    Route("POST", <<"api", "transactions">>, "publicApi.newTransactionPartial",
          "messageBroker"),
    Route("POST", <<"api", "transactions", "sign">>, "publicApi.newTransactionFull",
          "messageBroker"),
    Route("POST", <<"api", "blocks">>, "publicApi.blockMined", "messageBroker"),
    Route("GET", <<"api", "blocks">>, "publicApi.getBlockHashes", "messageBroker"),
    Route("GET", <<"api", "blockheight">>, "publicApi.getBlockHeight", "messageBroker"),
    Route("GET", <<"api", "blocks", ":blockHash">>, "publicApi.getBlockByHash",
          "messageBroker")>>

PrivateRoutes ==
  <<Route("GET", <<"api", "stop">>, "privateApi.stop", "none"),
    Route("GET", <<"api", "status">>, "privateApi.getStatus", "none"),
    Route("POST", <<"api", "wallet">>, "privateApi.createWallet", "messageBroker"),
    Route("GET", <<"api", "wallet", "balances", ":tokenHash">>,
          "privateApi.getBalances", "messageBroker"),
    Route("GET", <<"api", "wallet", "balances", ":betaPublicKey", ":tokenHash">>,
          "privateApi.getBilateralBalances", "messageBroker"),
    Route("POST", <<"api", "tokens">>, "privateApi.createToken", "messageBroker"),
    Route("GET", <<"api", "tokens">>, "privateApi.listTokens", "messageBroker"),
    Route("POST", <<"api", "transactions">>, "privateApi.createPartialTransaction",
          "messageBroker"),
    Route("GET", <<"api", "transactions">>, "privateApi.listPartialTransaction",
          "messageBroker"),
    Route("POST", <<"api", "transactions", "sign">>, "privateApi.createFullTransaction",
          "messageBroker"),
    Route("GET", <<"api", "options">>, "privateApi.listExercisableOptions",
          "messageBroker"),
    Route("POST", <<"api", "options", "exercise">>, "privateApi.exerciseOption",
          "messageBroker")>>

\* the tail both subclasses register: the error translator, then OPTIONS "*"
ErrorThenPreflight ==
  <<Use("handleErrors", 4), Route("OPTIONS", <<"*">>, "cors", "none")>>

\* the error translator registered ahead of the resource routes
PublicApp_ErrorFirst(lg) ==
  AppLayers(lg) \o <<Use("handleErrors", 4)>> \o PublicRoutes
                \o <<Route("OPTIONS", <<"*">>, "cors", "none")>>

\* PublicApp.constructor
PublicApp(lg) == AppLayers(lg) \o PublicRoutes \o ErrorThenPreflight

\* PrivateApp.constructor
PrivateApp(lg) == AppLayers(lg) \o PrivateRoutes \o ErrorThenPreflight

Construct(sf, lg) == IF sf = "public" THEN PublicApp(lg) ELSE PrivateApp(lg)

RouteTable(sf) == IF sf = "public" THEN PublicRoutes ELSE PrivateRoutes

(***************************************************************************)
(* Path matching of a route layer (express, non-strict routing)            *)
(***************************************************************************)
ParamNames == {":blockHash", ":tokenHash", ":betaPublicKey"}

IsParam(seg) == seg \in ParamNames

\* one trailing "/" is ignored: it shows as a last empty segment
StripSlash(path) ==
  IF Len(path) > 0 /\ path[Len(path)] = ""
  THEN SubSeq(path, 1, Len(path) - 1)
  ELSE path

\* prefix matching, as a use() mount point matches
PathMatch_Prefix(pattern, path) ==
  \/ pattern = <<"*">>
  \/ LET p == StripSlash(path) IN
       /\ Len(p) >= Len(pattern)
       /\ \A i \in 1..Len(pattern) :
            IF IsParam(pattern[i]) THEN p[i] # "" ELSE p[i] = pattern[i]

PathMatch(pattern, path) ==
  \/ pattern = <<"*">>
  \/ LET p == StripSlash(path) IN
       /\ Len(p) = Len(pattern)
       /\ \A i \in 1..Len(pattern) :
            IF IsParam(pattern[i]) THEN p[i] # "" ELSE p[i] = pattern[i]

\* whether the router hands the request to this layer
LayerMatch(layer, rq) ==
  IF layer.type = "use"
  THEN TRUE
  ELSE /\ rq.err.kind = "none"
       /\ layer.method = rq.method
       /\ PathMatch(layer.path, rq.path)

(***************************************************************************)
(* Errors and responses                                                    *)
(***************************************************************************)
\* kind: "OrbError" (instanceof OrbError), "Error" (any other), "none".
\* code: OrbError.httpStatusCode; for another error its own status property.
NoError == [kind |-> "none", code |-> 0, msg |-> "", stack |-> FALSE]

\* what body-parser forwards for a body it cannot parse (status property 400)
BodyError ==
  [kind |-> "Error", code |-> 400, msg |-> "Unexpected token", stack |-> TRUE]

\* this.logger.error(...) with this.logger undefined
LoggerTypeError ==
  [kind |-> "Error", code |-> 0, msg |-> "Cannot read property 'error' of undefined",
   stack |-> TRUE]

NoBody == [type |-> "none", keys |-> {}, error |-> ""]
EmptyBody == [type |-> "empty", keys |-> {}, error |-> ""]
HtmlBody == [type |-> "html", keys |-> {}, error |-> ""]
ResultBody == [type |-> "json", keys |-> {"result"}, error |-> ""]

\* res.json({ error: error.message })
ErrorJson(msg) == [type |-> "json", keys |-> {"error"}, error |-> msg]

IdleRequest ==
  [phase |-> "idle", method |-> "", path |-> <<>>, body |-> "none", idx |-> 0,
   err |-> NoError, seen |-> NoError, trace |-> <<>>, log |-> <<>>, threw |-> FALSE,
   corsHeaders |-> FALSE, status |-> 0, resp |-> NoBody, by |-> "none",
   nresp |-> 0]

NewRequest(m, p, b) ==
  [IdleRequest EXCEPT !.phase = "run", !.method = m, !.path = p, !.body = b]

\* the layer at index i is called for the request
Invoke(rq, i) == [rq EXCEPT !.trace = Append(@, i), !.idx = i]

\* res.status(status); res.json(body) or res.end(): the response goes out
Write(rq, by, status, body) ==
  [rq EXCEPT !.phase = "done", !.status = status, !.resp = body, !.by = by,
             !.nresp = @ + 1]

(***************************************************************************)
(* App.handleErrors                                                        *)
(***************************************************************************)
LogError(rq, what, text) ==
  [rq EXCEPT !.log = Append(@, [level |-> "error", what |-> what, text |-> text])]

\* the else forgotten: the 500 branch runs after the OrbError branch too
handleErrors_NoElse(lg, error, rq) ==
  IF lg = "undefined"
  THEN [rq EXCEPT !.threw = TRUE]
  ELSE LET l1 == LogError(rq, "message", error.msg)
           l2 == IF error.stack THEN LogError(l1, "stack", error.msg) ELSE l1
           w1 == IF error.kind = "OrbError"
                 THEN Write(l2, "handleErrors", error.code, ErrorJson(error.msg))
                 ELSE l2
       IN  Write(w1, "handleErrors", 500, ErrorJson(error.msg))

handleErrors(lg, error, rq) ==
  IF lg = "undefined"
  THEN \* this.logger.error throws a TypeError before anything is written
       [rq EXCEPT !.threw = TRUE]
  ELSE LET l1 == LogError(rq, "message", error.msg)
           l2 == IF error.stack THEN LogError(l1, "stack", error.msg) ELSE l1
       IN  IF error.kind = "OrbError"
           THEN Write(l2, "handleErrors", error.code, ErrorJson(error.msg))
           ELSE Write(l2, "handleErrors", 500, ErrorJson(error.msg))

(***************************************************************************)
(* The fixed middleware                                                    *)
(***************************************************************************)
\* whether the parser reads the body (content type and a body present)
Parses(handler, body) ==
  \/ handler = "bodyParser.json" /\ body \in {"json", "badjson"}
  \/ handler = "bodyParser.urlencoded" /\ body \in {"form", "badform"}

Malformed(body) == body \in {"badjson", "badform"}

\* cors(this.options): headers on every request; a preflight ends here unless
\* preflightContinue.  Returns the request and whether next() is called.
\* preflightContinue taken as true: a preflight goes on to next()
corsMiddleware_Continue(rq) == [rq EXCEPT !.corsHeaders = TRUE]

corsMiddleware(rq) ==
  LET h == [rq EXCEPT !.corsHeaders = TRUE] IN
  IF rq.method = "OPTIONS" /\ ~options.preflightContinue
  THEN Write(h, "cors", 204, EmptyBody)
  ELSE h

\* the end of the stack: express answers itself (404, or 500 for an error)
finalhandler(rq) ==
  IF rq.err.kind = "none"
  THEN Write(rq, "finalhandler", 404, HtmlBody)
  ELSE Write(rq, "finalhandler", 500, HtmlBody)

(***************************************************************************)
(* Dispatch: the router's next(), from layer i on, until a layer waits for *)
(* I/O (a body being read, a handler's asynchronous work) or the response  *)
(* is written.                                                             *)
(***************************************************************************)
RECURSIVE Dispatch(_, _, _, _)
Dispatch(stk, lg, rq, i) ==
  IF i > Len(stk) THEN finalhandler(rq)
  ELSE
    LET layer == stk[i] IN
    IF ~LayerMatch(layer, rq) THEN Dispatch(stk, lg, rq, i + 1)
    ELSE IF rq.err.kind # "none"
    THEN \* Layer.handle_error: only a four-argument function takes an error
         IF layer.arity # 4 THEN Dispatch(stk, lg, rq, i + 1)
         ELSE LET called == [Invoke(rq, i) EXCEPT !.seen = rq.err]
                  out == handleErrors(lg, rq.err, called)
              IN
              IF out.phase = "done" THEN out
              ELSE \* it threw: express forwards what was thrown
                   Dispatch(stk, lg, [out EXCEPT !.err = LoggerTypeError], i + 1)
    ELSE \* Layer.handle_request: a four-argument function is skipped
         IF layer.arity > 3 THEN Dispatch(stk, lg, rq, i + 1)
         ELSE IF layer.handler \in {"compression", "morgan", "expressValidator"}
         THEN Dispatch(stk, lg, Invoke(rq, i), i + 1)
         ELSE IF layer.handler \in {"bodyParser.json", "bodyParser.urlencoded"}
         THEN IF Parses(layer.handler, rq.body)
              THEN [Invoke(rq, i) EXCEPT !.phase = "body"]
              ELSE Dispatch(stk, lg, Invoke(rq, i), i + 1)
         ELSE IF layer.handler = "cors"
         THEN LET out == corsMiddleware(Invoke(rq, i)) IN
              IF out.phase = "done" THEN out ELSE Dispatch(stk, lg, out, i + 1)
         ELSE \* a controller closure: it starts its asynchronous work
              [Invoke(rq, i) EXCEPT !.phase = "handler"]

(***************************************************************************)
(* start(port, bind)                                                       *)
(***************************************************************************)
RECURSIVE Decimal(_)
Decimal(digits) ==
  IF digits = <<>> THEN 0
  ELSE Decimal(SubSeq(digits, 1, Len(digits) - 1)) * 10 + digits[Len(digits)]

\* Number(port): a number is itself, a string of digits its decimal value
Number(p) == IF p.type = "number" THEN p.num ELSE Decimal(p.digits)

Undefined == [defined |-> FALSE, num |-> 0]
NoSetting == [defined |-> FALSE, val |-> [type |-> "undefined", num |-> 0, digits |-> <<>>]]
Defined(n) == [defined |-> TRUE, num |-> n]

PortArgs ==
  {[type |-> "number", num |-> 8080, digits |-> <<>>],
   [type |-> "string", num |-> 0, digits |-> <<8, 0, 8, 0>>],
   [type |-> "string", num |-> 0, digits |-> <<8, 0>>]}

Pending == [state |-> "pending", reason |-> ""]

\* this.port never assigned
Start_NoPort(p) ==
  /\ listen = "built"
  /\ setting' = [defined |-> TRUE, val |-> p]
  /\ listen' = "binding"
  /\ promise' = Pending
  /\ UNCHANGED <<surface, logger, server, port, req>>

Start(p) ==
  /\ listen = "built"
  /\ port' = Defined(Number(p))
  /\ setting' = [defined |-> TRUE, val |-> p]
  /\ listen' = "binding"
  /\ promise' = Pending
  /\ UNCHANGED <<surface, logger, server, req>>

\* the socket is bound: the listen callback runs without an error
Listening ==
  /\ listen = "binding"
  /\ listen' = "listening"
  /\ promise' = IF promise.state = "pending"
                THEN [state |-> "resolved", reason |-> ""] ELSE promise
  /\ UNCHANGED <<surface, logger, server, setting, port, req>>

\* the bind fails and the server emits 'error': the callback handed to listen
\* is a 'listening' listener and is not called (node http.Server.listen)
BindErrorEvent ==
  /\ listen = "binding"
  /\ listen' = "failed"
  /\ UNCHANGED <<surface, logger, server, setting, port, promise, req>>

\* the bind fails in a build whose listen hands the error to the callback
BindErrorCallback ==
  /\ listen = "binding"
  /\ listen' = "failed"
  /\ promise' = IF promise.state = "pending"
                THEN [state |-> "rejected", reason |-> "EADDRINUSE"] ELSE promise
  /\ UNCHANGED <<surface, logger, server, setting, port, req>>

(***************************************************************************)
(* Requests                                                                *)
(***************************************************************************)
Methods == {"GET", "POST", "OPTIONS"}
Bodies == {"none", "json", "badjson", "form", "badform"}

ParamVals == {"h1", "sign", "balances"}

RECURSIVE Instances(_)
Instances(pattern) ==
  IF pattern = <<>> THEN {<<>>}
  ELSE {<<h>> \o t :
          h \in (IF IsParam(Head(pattern)) THEN ParamVals ELSE {Head(pattern)}),
          t \in Instances(Tail(pattern))}

TablePaths(routes) == UNION {Instances(routes[i].path) : i \in 1..Len(routes)}

Paths ==
  LET known == TablePaths(PublicRoutes) \cup TablePaths(PrivateRoutes) IN
  known \cup {p \o <<"">> : p \in known}
        \cup {<<>>, <<"api">>, <<"api", "blocks", "h1", "h1">>, <<"nope">>}

\* what a controller's failed operation forwards with next(error)
HandlerErrors ==
  {[kind |-> "OrbError", code |-> 404, msg |-> "token not found", stack |-> TRUE],
   [kind |-> "OrbError", code |-> 409, msg |-> "conflict", stack |-> FALSE],
   [kind |-> "Error", code |-> 0, msg |-> "boom", stack |-> TRUE],
   [kind |-> "Error", code |-> 403, msg |-> "denied", stack |-> FALSE]}

\* a connection is accepted only on a listening socket
Arrive(r, m, p, b) ==
  /\ listen = "listening"
  /\ req[r].phase = "idle"
  /\ req' = [req EXCEPT ![r] = Dispatch(server, logger, NewRequest(m, p, b), 1)]
  /\ UNCHANGED <<surface, logger, server, setting, port, listen, promise>>

\* the body parser has read the body: next() or next(error)
BodyParsed(r) ==
  /\ req[r].phase = "body"
  /\ LET rq == [req[r] EXCEPT !.phase = "run",
                              !.err = IF Malformed(req[r].body) THEN BodyError
                                      ELSE NoError]
     IN  req' = [req EXCEPT ![r] = Dispatch(server, logger, rq, rq.idx + 1)]
  /\ UNCHANGED <<surface, logger, server, setting, port, listen, promise>>

\* the controller's operation succeeded and it writes the result
HandlerResponds(r) ==
  /\ req[r].phase = "handler"
  /\ req' = [req EXCEPT ![r] = Write(@, "route", 200, ResultBody)]
  /\ UNCHANGED <<surface, logger, server, setting, port, listen, promise>>

\* the controller's operation failed and it forwards the error
HandlerFails(r, e) ==
  /\ req[r].phase = "handler"
  /\ LET rq == [req[r] EXCEPT !.phase = "run", !.err = e]
     IN  req' = [req EXCEPT ![r] = Dispatch(server, logger, rq, rq.idx + 1)]
  /\ UNCHANGED <<surface, logger, server, setting, port, listen, promise>>

\* the controller's operation never completes
HandlerHangs(r) ==
  /\ req[r].phase = "handler"
  /\ req' = [req EXCEPT ![r].phase = "hung"]
  /\ UNCHANGED <<surface, logger, server, setting, port, listen, promise>>

(***************************************************************************)
(* Specifications                                                          *)
(***************************************************************************)
Constructed ==
  /\ surface \in {"public", "private"}
  /\ logger \in {"winston", "undefined"}
  /\ server = Construct(surface, logger)
  /\ setting = NoSetting
  /\ port = Undefined
  /\ listen = "built"
  /\ promise = [state |-> "none", reason |-> ""]

\* one request, every method, path and body
Init == Constructed /\ req = <<IdleRequest>>

Next ==
  \/ \E p \in PortArgs : Start(p)
  \/ Listening
  \/ BindErrorEvent
  \/ BindErrorCallback
  \/ \E r \in DOMAIN req, m \in Methods, p \in Paths, b \in Bodies : Arrive(r, m, p, b)
  \/ \E r \in DOMAIN req : BodyParsed(r)
  \/ \E r \in DOMAIN req : HandlerResponds(r)
  \/ \E r \in DOMAIN req, e \in HandlerErrors : HandlerFails(r, e)
  \/ \E r \in DOMAIN req : HandlerHangs(r)

Spec == Init /\ [][Next]_vars

\* several requests in flight, one request of each class
ConcRequests ==
  {<<"GET", <<"api", "status">>, "none">>,
   <<"POST", <<"api", "tokens">>, "json">>,
   <<"POST", <<"api", "tokens">>, "badjson">>,
   <<"OPTIONS", <<"api", "tokens">>, "none">>}

InitConc == Constructed /\ req = [r \in 1..MaxInFlight |-> IdleRequest]

NextConc ==
  \/ \E p \in PortArgs : Start(p)
  \/ Listening
  \/ BindErrorEvent
  \/ BindErrorCallback
  \/ \E r \in DOMAIN req, q \in ConcRequests : Arrive(r, q[1], q[2], q[3])
  \/ \E r \in DOMAIN req : BodyParsed(r)
  \/ \E r \in DOMAIN req : HandlerResponds(r)
  \/ \E r \in DOMAIN req, e \in HandlerErrors : HandlerFails(r, e)
  \/ \E r \in DOMAIN req : HandlerHangs(r)

SpecConc == InitConc /\ [][NextConc]_vars

(***************************************************************************)
(* Properties                                                              *)
(***************************************************************************)
Slots == DOMAIN req

\* the positions in the request's trace where a layer of the kind was called
Calls(rq, Kind(_)) == {k \in 1..Len(rq.trace) : Kind(server[rq.trace[k]])}

IsTranslator(layer) == layer.handler = "handleErrors"
IsCorsUse(layer) == layer.type = "use" /\ layer.handler = "cors"
IsRoute(layer) == layer.type = "route"
IsResource(layer) == layer.type = "route" /\ layer.path # <<"*">>

Answered(rq) == rq.phase = "done"

\* C1: every OrbError handed to handleErrors is answered with the error's
\* httpStatusCode and the JSON body { error: message }, nothing else.
C1_DomainErrorResponse ==
  \A r \in Slots :
    Answered(req[r]) /\ req[r].seen.kind = "OrbError"
      => /\ req[r].status = req[r].seen.code
         /\ req[r].resp = ErrorJson(req[r].seen.msg)

\* C2: every error handed to handleErrors that is no OrbError, a body-parsing
\* failure included, is answered with status 500 and { error: message }.
C2_UnclassifiedErrorResponse ==
  \A r \in Slots :
    Answered(req[r]) /\ req[r].seen.kind = "Error"
      => /\ req[r].status = 500
         /\ req[r].resp = ErrorJson(req[r].seen.msg)

\* C3 as stated: every OPTIONS request is answered by the cors middleware and
\* calls neither a resource route handler nor the error translator.
C3_PreflightAlwaysByCors ==
  \A r \in Slots :
    Answered(req[r]) /\ req[r].method = "OPTIONS"
      => /\ req[r].by = "cors"
         /\ Calls(req[r], IsResource) = {}
         /\ Calls(req[r], IsTranslator) = {}

\* C3 amended: an OPTIONS request never calls a route handler (a resource
\* route or the OPTIONS "*" responder); when the body parsers ahead of cors
\* accept it, the cors middleware answers it (204, CORS headers) as the last
\* layer called and the error translator is not called; when a body parser
\* rejects its body, cors is not called and the error goes to the translator.
C3_Preflight ==
  \A r \in Slots :
    LET rq == req[r] IN
    rq.method = "OPTIONS"
      => /\ Calls(rq, IsRoute) = {}
         /\ Answered(rq) /\ ~Malformed(rq.body)
              => /\ rq.by = "cors" /\ rq.status = 204 /\ rq.corsHeaders
                 /\ Calls(rq, IsTranslator) = {}
                 /\ Calls(rq, IsCorsUse) = {Len(rq.trace)}
         /\ Answered(rq) /\ Malformed(rq.body)
              => /\ rq.seen = BodyError
                 /\ Calls(rq, IsCorsUse) = {}
                 /\ Calls(rq, IsTranslator) # {}

C3_Witness ==
  \E r \in Slots :
    /\ req[r].method = "OPTIONS" /\ req[r].path = <<"api", "tokens">>
    /\ req[r].body = "json" /\ req[r].by = "cors"

\* C4: a failed bind rejects the promise of start with the bind error.
C4_BindFailureRejects ==
  listen = "failed" => promise = [state |-> "rejected", reason |-> "EADDRINUSE"]

\* C5: handleErrors never throws and ends the request: it logs the message,
\* the stack iff there is one, writes the response and does not call next.
C5_HandleErrorsTerminal ==
  \A r \in Slots :
    LET rq == req[r] IN
    rq.seen.kind # "none"
      => /\ ~rq.threw
         /\ Answered(rq) /\ rq.by = "handleErrors"
         /\ rq.log = <<[level |-> "error", what |-> "message", text |-> rq.seen.msg]>>
                     \o (IF rq.seen.stack
                         THEN <<[level |-> "error", what |-> "stack",
                                 text |-> rq.seen.msg]>>
                         ELSE <<>>)
         /\ Calls(rq, IsTranslator) = {Len(rq.trace)}

\* C6: every request on which a middleware or a route forwarded an error is
\* answered by handleErrors with a JSON body carrying "error".
C6_ErrorsReachTranslator ==
  \A r \in Slots :
    LET rq == req[r] IN
    Answered(rq) /\ rq.err.kind # "none"
      => /\ rq.by = "handleErrors"
         /\ rq.resp.type = "json" /\ "error" \in rq.resp.keys

LayerAt(i) == server[i]

\* C7: the layers are registered, and called, in the fixed order: compression,
\* morgan iff a logger, json, urlencoded, validator, cors, the resource
\* routes, the error translator, OPTIONS "*"; no resource route follows the
\* translator and no resource handler runs before cors ran for the request.
C7_RegistrationOrder ==
  LET n == Len(server)
      m == IF logger = "undefined" THEN 0 ELSE 1
      k == Len(RouteTable(surface))
  IN  /\ n = 5 + m + k + 2
      /\ LayerAt(1).handler = "compression"
      /\ (m = 1) = (LayerAt(2).handler = "morgan")
      /\ (\E i \in 1..n : LayerAt(i).handler = "morgan") = (logger # "undefined")
      /\ LayerAt(2 + m).handler = "bodyParser.json"
      /\ LayerAt(3 + m).handler = "bodyParser.urlencoded"
      /\ LayerAt(4 + m).handler = "expressValidator"
      /\ IsCorsUse(LayerAt(5 + m))
      /\ \A i \in 1..(5 + m) : LayerAt(i).type = "use" /\ LayerAt(i).arity = 3
      /\ \A i \in (6 + m)..(n - 2) : IsResource(LayerAt(i))
      /\ IsTranslator(LayerAt(n - 1)) /\ LayerAt(n - 1).arity = 4
      /\ LayerAt(n).type = "route" /\ LayerAt(n).method = "OPTIONS"
      /\ LayerAt(n).path = <<"*">>
      /\ \A r \in Slots :
           LET rq == req[r] IN
           /\ \A a, b \in 1..Len(rq.trace) : a < b => rq.trace[a] < rq.trace[b]
           /\ \A c \in Calls(rq, IsResource) :
                \E a \in Calls(rq, IsCorsUse) : a < c

C7_Witness ==
  \E r \in Slots :
    /\ req[r].by = "handleErrors" /\ Calls(req[r], IsResource) # {}
    /\ Len(req[r].trace) = 8

\* the dependency the route table declares for a controller closure
DeclaredDep(handler) ==
  IF handler \in {"publicApi.getStatus", "privateApi.getStatus", "privateApi.stop"}
  THEN "none"
  ELSE IF handler \in {"publicApi.getPeers", "publicApi.becomePeer"}
  THEN "peerHandler"
  ELSE "messageBroker"

\* the table entries a request addresses: same method, same segments, a
\* parameter standing for one non-empty segment
Addressed(rq) ==
  LET routes == RouteTable(surface)
      p == IF rq.path # <<>> /\ rq.path[Len(rq.path)] = ""
           THEN SubSeq(rq.path, 1, Len(rq.path) - 1) ELSE rq.path
  IN  {i \in 1..Len(routes) :
         /\ routes[i].method = rq.method
         /\ Len(routes[i].path) = Len(p)
         /\ \A j \in 1..Len(p) :
              \/ routes[i].path[j] = p[j]
              \/ routes[i].path[j] \in {":blockHash", ":tokenHash", ":betaPublicKey"}
                 /\ p[j] # ""}

Dispatched(rq) == rq.phase \in {"handler", "hung", "done"}

\* the handler names called for the request, resource routes only
ResourceHandlers(rq) ==
  {server[rq.trace[c]].handler : c \in Calls(rq, IsResource)}

\* C8 as stated: every request whose method and path address a table entry
\* calls exactly one resource handler closure, the entry's.
C8_EveryAddressedRequestRouted ==
  \A r \in Slots :
    LET rq == req[r] IN
    Dispatched(rq) /\ Addressed(rq) # {}
      => Cardinality(Calls(rq, IsResource)) = 1

\* C8 amended: a request whose method and path address a table entry and
\* whose body the body parsers accept calls exactly one resource handler
\* closure, the entry's, with the entry's declared dependency; the block and
\* balance routes do not shadow one another.  A request addressing no entry,
\* or with a rejected body, calls none.
C8_Routing ==
  \A r \in Slots :
    LET rq == req[r]
        routes == RouteTable(surface)
    IN
    Dispatched(rq)
      => /\ Cardinality(Addressed(rq)) <= 1
         /\ Addressed(rq) # {} /\ ~Malformed(rq.body)
              => /\ Cardinality(Calls(rq, IsResource)) = 1
                 /\ \A c \in Calls(rq, IsResource), i \in Addressed(rq) :
                      /\ server[rq.trace[c]].handler = routes[i].handler
                      /\ server[rq.trace[c]].dep = DeclaredDep(routes[i].handler)
         /\ Addressed(rq) = {} \/ Malformed(rq.body) => Calls(rq, IsResource) = {}
         /\ rq.method = "GET" /\ ~Malformed(rq.body) /\ surface = "public"
              => /\ rq.path = <<"api", "blocks">>
                      => ResourceHandlers(rq) = {"publicApi.getBlockHashes"}
                 /\ rq.path = <<"api", "blocks", "">>
                      => ResourceHandlers(rq) = {"publicApi.getBlockHashes"}
                 /\ rq.path = <<"api", "blocks", "h1">>
                      => ResourceHandlers(rq) = {"publicApi.getBlockByHash"}
         /\ rq.method = "GET" /\ ~Malformed(rq.body) /\ surface = "private"
              => /\ rq.path = <<"api", "wallet", "balances", "h1">>
                      => ResourceHandlers(rq) = {"privateApi.getBalances"}
                 /\ rq.path = <<"api", "wallet", "balances", "balances", "h1">>
                      => ResourceHandlers(rq) = {"privateApi.getBilateralBalances"}

C8_Witness ==
  \E r \in Slots :
    /\ surface = "public" /\ req[r].method = "GET"
    /\ req[r].path = <<"api", "blocks", "h1">> /\ req[r].body = "json"
    /\ req[r].by = "route"
    /\ ResourceHandlers(req[r]) = {"publicApi.getBlockByHash"}

\* C9: under every interleaving each request gets at most one response, from
\* the route's success path or from handleErrors and never from both; a
\* request whose handler never completes leaves every other request able to
\* take its next step.
C9_AtMostOneResponse ==
  \A r \in Slots :
    LET rq == req[r] IN
    /\ rq.nresp <= 1
    /\ (rq.nresp = 1) = Answered(rq)
    /\ rq.by = "route" => Calls(rq, IsTranslator) = {} /\ rq.seen.kind = "none"
    /\ rq.by = "handleErrors" => Calls(rq, IsTranslator) = {Len(rq.trace)}
    /\ rq.phase = "body" => ENABLED BodyParsed(r)
    /\ rq.phase = "handler"
         => /\ ENABLED HandlerResponds(r)
            /\ \A e \in HandlerErrors : ENABLED HandlerFails(r, e)
    /\ rq.phase = "idle" /\ listen = "listening"
         => \A q \in ConcRequests : ENABLED Arrive(r, q[1], q[2], q[3])

C9_Witness ==
  \E r1, r2 \in Slots :
    /\ r1 # r2
    /\ req[r1].phase = "hung"
    /\ req[r2].by = "handleErrors" /\ req[r2].nresp = 1

\* C10: nothing is served before start: after construction the port is
\* undefined and no socket is bound; start sets port to Number(port); a
\* request is in the pipeline only while the server listens.
C10_NothingBeforeStart ==
  /\ listen = "built"
       => port = Undefined /\ setting = NoSetting /\ promise.state = "none"
  /\ listen # "built" => port.defined /\ setting.defined
  /\ setting.defined /\ setting.val.type = "number" => port.num = setting.val.num
  /\ setting.defined /\ setting.val.digits = <<8, 0, 8, 0>> => port.num = 8080
  /\ setting.defined /\ setting.val.digits = <<8, 0>> => port.num = 80
  /\ \A r \in Slots :
       req[r].phase # "idle"
         => listen = "listening" /\ port.defined /\ promise.state = "resolved"

C10_Witness ==
  \E r \in Slots :
    /\ req[r].nresp = 1
    /\ setting.val.digits = <<8, 0, 8, 0>> /\ port = Defined(8080)

(***************************************************************************)
(* The error-translation statements restricted to a gateway constructed    *)
(* with a logger: there they hold, so the violations above come from the   *)
(* logger-less construction alone.                                         *)
(***************************************************************************)
Logged_DomainErrorResponse == logger # "undefined" => C1_DomainErrorResponse

Logged_UnclassifiedErrorResponse == logger # "undefined" => C2_UnclassifiedErrorResponse

Logged_HandleErrorsTerminal == logger # "undefined" => C5_HandleErrorsTerminal

Logged_ErrorsReachTranslator == logger # "undefined" => C6_ErrorsReachTranslator

====
